---- MODULE Spec2Model ----
(***************************************************************************)
(* Model of microsft_live_Tracker.py: the polling loop of main(), the      *)
(* sqlite-backed state table and runs log, the cooldown gate and the       *)
(* e-mail notification.                                                    *)
(*                                                                         *)
(* Abstractions, stated once:                                              *)
(*  - sha256 is taken to be injective: signature() is the JSON payload it  *)
(*    hashes, the ordered list of (id, title) pairs.                       *)
(*  - json.dumps is a tagged copy of the value and json.loads removes the  *)
(*    tag (the values are lists of dicts of strings, which round-trip).    *)
(*  - time is an integer clock `now`; it advances in time.sleep by         *)
(*    random.randint(POLL_MIN_SECONDS, POLL_MAX_SECONDS) and while an      *)
(*    e-mail is being sent.                                                *)
(*  - an Optional value is a sequence of length 0 (None) or 1.             *)
(*  - the ip_log table written by log_public_ip is not modelled: the       *)
(*    function swallows every exception and nothing reads the table.       *)
(***************************************************************************)
EXTENDS Integers, Sequences, FiniteSets, TLC

\* ---------------------------------------------------------------- bounds
MaxPoll == 2
MaxTopK == 2
MaxListing == 2
MaxSendDelay == 1
MaxCycles == 3
MaxCallLen == 2

\* ------------------------------------------------------ program constants
COOLDOWN_SECONDS == 3
RunCount == 2

\* Date numbers are counted in millions (10^6), which keeps them within the
\* integers of the model checker: the threshold 10_000_000_000 of parse_dt
\* is 10000, the value 1700000000 is 1700.
MS_THRESHOLD == 10000
MsPerSecond == 1000

None == <<>>
Some(v) == <<v>>

\* ------------------------------------------------------------- the inputs
\* Entries that parse_jobs_from_html can produce (id, title, location).
JobPool ==
  { [id |-> 1, title |-> "A", location |-> "x"],
    [id |-> 2, title |-> "B", location |-> "x"] }

\* The same entries, and entry 1 listed under another location.
LocationPool == JobPool \cup { [id |-> 1, title |-> "A", location |-> "y"] }

RECURSIVE SeqsUpTo(_, _)
SeqsUpTo(S, n) ==
  IF n = 0 THEN { <<>> }
  ELSE LET shorter == SeqsUpTo(S, n - 1)
       IN  shorter \cup { Append(s, x) : s \in shorter, x \in S }

\* mutant: parse_jobs_from_html keeps every anchor (no seen_ids test)
UniqueIdsNoDedup(l) == TRUE

UniqueIds(l) == \A a, b \in 1..Len(l) : l[a].id = l[b].id => a = b

\* parse_jobs_from_html keeps the first entry of each id (seen_ids).
SiteListings(pool) == { l \in SeqsUpTo(pool, MaxListing) : UniqueIds(l) }

Listings == SiteListings(JobPool)

\* Entries for the functions called on their own: three ids, two titles for
\* each id and two locations for id 1.
CallJobs ==
  { [id |-> n, title |-> t, location |-> "x"] : n \in {1, 2, 3}, t \in {"A", "B"} }
    \cup { [id |-> 1, title |-> t, location |-> "y"] : t \in {"A", "B"} }

CallListings == { l \in SeqsUpTo(CallJobs, MaxCallLen) : UniqueIds(l) }

\* Date numbers given to parse_dt, in millions: 0, small values, the values
\* around 10_000_000 and around 10_000_000_000, and the example 1700000000.
EpochValues == {0, 1, 9, 10, 11, 1700, 9999, 10000, 10001, 20000}

\* --------------------------------------------------------- pure functions
\* mutant: the threshold itself is read as milliseconds
ParseDtThresholdIsMs(v) ==
  IF v = 0 THEN None
  ELSE IF v >= MS_THRESHOLD THEN Some(v)
       ELSE Some(v * MsPerSecond)

\* parse_dt on a job whose only date is the number v under one of the date
\* keys: the instant, as a number of milliseconds since the epoch (in
\* millions), or None.  `if not v: continue` skips 0; fromtimestamp(v / 1000.0)
\* is the instant v ms, fromtimestamp(v) the instant v * 1000 ms.
parse_dt(v) ==
  IF v = 0 THEN None
  ELSE IF v > MS_THRESHOLD THEN Some(v)
       ELSE Some(v * MsPerSecond)

Take(s, n) == [k \in 1..(IF Len(s) < n THEN Len(s) ELSE n) |-> s[k]]

top5_snapshot(js, k) == Take(js, k)

\* mutant: the titles are left out of the hashed payload
SignatureIdsOnly(top5) == [n \in 1..Len(top5) |-> <<top5[n].id>>]

signature(top5) == [n \in 1..Len(top5) |-> <<top5[n].id, top5[n].title>>]

json_dumps(x) == [json |-> x]
json_loads(s) == s.json

Ids(w) == { w[n].id : n \in 1..Len(w) }

RECURSIVE TitlesNotIn(_, _)
TitlesNotIn(w, ids) ==
  IF w = <<>> THEN <<>>
  ELSE IF Head(w).id \in ids THEN TitlesNotIn(Tail(w), ids)
       ELSE <<Head(w).title>> \o TitlesNotIn(Tail(w), ids)

\* mutant: the two lists are returned in the other order
DiffSwapped(prev, curr) == <<TitlesNotIn(prev, Ids(curr)), TitlesNotIn(curr, Ids(prev))>>

diff(prev, curr) == <<TitlesNotIn(curr, Ids(prev)), TitlesNotIn(prev, Ids(curr))>>

\* diff called with an Optional prev: the set comprehension of line 229
\* iterates prev, which raises TypeError when prev is None
diff_call(prev, curr) ==
  IF prev = None THEN [raised |-> TRUE, value |-> <<>>]
  ELSE [raised |-> FALSE, value |-> diff(prev[1], curr)]

\* format_body: the Entered/Left sections (only when prev is truthy) and the
\* listing of the new window.
format_body(prev, curr) ==
  LET d == IF prev # None /\ prev[1] # <<>> THEN diff(prev[1], curr) ELSE <<<<>>, <<>>>>
  IN  [entered |-> d[1], left |-> d[2], top |-> curr]

\* mutant: the test of line 298 (min > max) is missing
ValidConfigNoOrder(pmin, pmax, k) ==
  /\ ~(pmin <= 0 \/ pmax <= 0)
  /\ ~(k <= 0)

ValidConfig(pmin, pmax, k) ==
  /\ ~(pmin <= 0 \/ pmax <= 0)
  /\ ~(pmin > pmax)
  /\ ~(k <= 0)

\* mutant: an absent previous signature does not count as a change
ChangedIgnoringAbsent(psig, csig) == psig # None /\ psig # Some(csig)

\* prev_sig != curr_sig, with prev_sig an Optional
Changed(psig, csig) == psig # Some(csig)

\* mutant: <= in place of < in the cooldown guard
CanSendStrict(ls, t) == ~(ls # None /\ t - ls[1] <= COOLDOWN_SECONDS)

\* the cooldown guard: can_send stays True unless a last_sent is stored and
\* less than COOLDOWN_SECONDS have elapsed since
CanSend(ls, t) == ~(ls # None /\ t - ls[1] < COOLDOWN_SECONDS)

\* ------------------------------------------------------------------ state
VARIABLES
  POLL_MIN_SECONDS, POLL_MAX_SECONDS, TOP_K,   \* configuration (environment)
  state,        \* table state: keys top5_sig, top5_json, last_sent_utc
  runs,         \* table runs: sequence of [ts_utc, signature, top5_json]
  now,          \* the clock
  pc, i, conn,  \* control of main()
  cycles,       \* cycles begun so far, over all launches
  jobs, curr_top5, curr_sig, prev_sig, prev_top5, last_sent, can_send,
  cyc,          \* observations of the current cycle
  sentAt,       \* Optional time at which the last e-mail was delivered
  mail,         \* Optional body of the last e-mail delivered
  fetched,      \* whether fetch_jobs was ever called
  site,         \* the entries the careers page can list
  call          \* a function called on its own: name, arguments and outcome

cfgVars == <<POLL_MIN_SECONDS, POLL_MAX_SECONDS, TOP_K>>
dbVars == <<state, runs>>
locVars == <<jobs, curr_top5, curr_sig, prev_sig, prev_top5, last_sent, can_send>>
outVars == <<sentAt, mail>>
auxVars == <<site, call>>
vars == <<cfgVars, auxVars, dbVars, now, pc, i, cycles, conn, locVars, cyc, outVars,
          fetched>>

EmptyState == [top5_sig |-> None, top5_json |-> None, last_sent_utc |-> None]

\* What a cycle has done so far.  pre, preRuns and preSent are the persisted
\* state, the runs log and the last delivery time it started from; suppressed
\* counts the changes suppressed by the cooldown since the last delivered
\* e-mail; after_error says that the previous cycle of this launch went
\* through the except clause.
CycleRecord(st, rn, ps, afterError, supp) ==
  [ pre |-> st, preRuns |-> rn, preSent |-> ps, decision |-> "none",
    gate_now |-> 0, attempts |-> 0, delivered |-> FALSE, errored |-> FALSE,
    after_error |-> afterError, suppressed |-> supp, held |-> None ]

\* held is the signature of a change that the cooldown suppressed and that
\* every cycle with a window has shown since; it is dropped once a cycle
\* decided to notify.
NewCycle(afterError) ==
  [ CycleRecord(state, runs, sentAt, afterError, cyc.suppressed)
      EXCEPT !.held = IF cyc.decision = "notify" THEN None ELSE cyc.held ]

\* main() is running: no function is called on its own
NoCall == [f |-> "none", a |-> <<>>, b |-> <<>>, k |-> 0, out |-> <<>>]

NoLocals ==
  /\ jobs = <<>> /\ curr_top5 = <<>> /\ curr_sig = <<>>
  /\ prev_sig = None /\ prev_top5 = None /\ last_sent = None /\ can_send = TRUE

\* The state after the module is imported, on an empty database file.
Boot ==
  /\ state = EmptyState
  /\ runs = <<>>
  /\ now = 0
  /\ pc = "main" /\ i = 0 /\ cycles = 0 /\ conn = "closed"
  /\ NoLocals
  /\ cyc = CycleRecord(EmptyState, <<>>, None, FALSE, 0)
  /\ sentAt = None /\ mail = None /\ fetched = FALSE
  /\ call = NoCall

\* A valid setting of the environment: the sleep lasts 1 or 2 time units, the
\* cooldown 3, and the window holds 1..MaxTopK entries.
Init ==
  /\ POLL_MIN_SECONDS = 1
  /\ POLL_MAX_SECONDS = 2
  /\ TOP_K \in 1..MaxTopK
  /\ site = JobPool
  /\ Boot

\* The page can list an entry under either of two locations.
InitLocations ==
  /\ POLL_MIN_SECONDS = 1
  /\ POLL_MAX_SECONDS = 2
  /\ TOP_K \in 1..MaxTopK
  /\ site = LocationPool
  /\ Boot

\* Any setting of MS_POLL_MIN_SECONDS, MS_POLL_MAX_SECONDS and MS_TOP_K
InitAnyConfig ==
  /\ POLL_MIN_SECONDS \in 0..MaxPoll
  /\ POLL_MAX_SECONDS \in 0..MaxPoll
  /\ TOP_K \in 0..MaxTopK
  /\ site = JobPool
  /\ Boot

\* ---------------------------------------------------------------- actions
\* main(): validate_config() raises ValueError on an invalid configuration
validate_config ==
  /\ pc = "main"
  /\ pc' = IF ValidConfig(POLL_MIN_SECONDS, POLL_MAX_SECONDS, TOP_K)
           THEN "db_conn" ELSE "config_error"
  /\ UNCHANGED <<cfgVars, auxVars, dbVars, now, i, cycles, conn, locVars, cyc, outVars, fetched>>

\* conn = db_conn(); i = 0
db_conn ==
  /\ pc = "db_conn"
  /\ conn' = "open"
  /\ i' = 0
  /\ pc' = "loop"
  /\ UNCHANGED <<cfgVars, auxVars, dbVars, now, cycles, locVars, cyc, outVars, fetched>>

\* mutant: the loop is left after a cycle that raised
LoopTestStopsOnError ==
  /\ pc = "loop"
  /\ IF i < RunCount /\ ~cyc.errored
     THEN /\ cycles < MaxCycles
          /\ cycles' = cycles + 1
          /\ pc' = "fetch"
          /\ cyc' = NewCycle(cyc.errored)
          /\ conn' = conn
     ELSE /\ pc' = "done"
          /\ conn' = "closed"
          /\ UNCHANGED <<cyc, cycles>>
  /\ UNCHANGED <<cfgVars, auxVars, dbVars, now, i, locVars, outVars, fetched>>

\* while i<2: enter the try block of the next cycle, or leave the loop
LoopTest ==
  /\ pc = "loop"
  /\ IF i < RunCount
     THEN /\ cycles < MaxCycles
          /\ cycles' = cycles + 1
          /\ pc' = "fetch"
          /\ cyc' = NewCycle(cyc.errored)
          /\ conn' = conn
     ELSE /\ pc' = "done"
          /\ conn' = "closed"
          /\ UNCHANGED <<cyc, cycles>>
  /\ UNCHANGED <<cfgVars, auxVars, dbVars, now, i, locVars, outVars, fetched>>

\* log_public_ip(conn); jobs = fetch_jobs().  fetch_jobs raises when the page
\* cannot be rendered and when no job is parsed from it.
FetchJobs ==
  /\ pc = "fetch"
  /\ fetched' = TRUE
  /\ \/ /\ pc' = "except"                       \* render_search_page raises
        /\ jobs' = jobs
     \/ \E l \in SiteListings(site) :
          IF l = <<>>
          THEN pc' = "except" /\ jobs' = jobs   \* "No jobs parsed from page"
          ELSE pc' = "check_len" /\ jobs' = l
  /\ UNCHANGED <<cfgVars, auxVars, dbVars, now, i, cycles, conn, curr_top5, curr_sig,
                 prev_sig, prev_top5, last_sent, can_send, cyc, outVars>>

\* mutant: the length test of line 315 is missing
SnapshotNoLengthTest ==
  /\ pc = "check_len"
  /\ curr_top5' = top5_snapshot(jobs, TOP_K)
  /\ curr_sig' = signature(top5_snapshot(jobs, TOP_K))
  /\ pc' = "read_state"
  /\ UNCHANGED <<cfgVars, auxVars, dbVars, now, i, cycles, conn, jobs, prev_sig, prev_top5,
                 last_sent, can_send, cyc, outVars, fetched>>

\* if len(jobs) < TOP_K: skip; else curr_top5, curr_sig are computed
Snapshot ==
  /\ pc = "check_len"
  /\ IF Len(jobs) < TOP_K
     THEN /\ pc' = "round"
          /\ UNCHANGED <<curr_top5, curr_sig>>
     ELSE /\ curr_top5' = top5_snapshot(jobs, TOP_K)
          /\ curr_sig' = signature(top5_snapshot(jobs, TOP_K))
          /\ pc' = "read_state"
  /\ UNCHANGED <<cfgVars, auxVars, dbVars, now, i, cycles, conn, jobs, prev_sig, prev_top5,
                 last_sent, can_send, cyc, outVars, fetched>>

\* prev_sig = state_get("top5_sig"); prev_top5 = json.loads(state_get("top5_json"))
ReadState ==
  /\ pc = "read_state"
  /\ prev_sig' = state.top5_sig
  /\ prev_top5' = IF state.top5_json # None
                  THEN Some(json_loads(state.top5_json[1])) ELSE None
  /\ pc' = "append_run"
  /\ UNCHANGED <<cfgVars, auxVars, dbVars, now, i, cycles, conn, jobs, curr_top5, curr_sig,
                 last_sent, can_send, cyc, outVars, fetched>>

\* mutant: the run is logged only when the signature changed
AppendRunIfChanged ==
  /\ pc = "append_run"
  /\ runs' = IF Changed(prev_sig, curr_sig)
             THEN Append(runs, [ts_utc |-> now, signature |-> curr_sig,
                                top5_json |-> json_dumps(curr_top5)])
             ELSE runs
  /\ pc' = "gate"
  /\ UNCHANGED <<cfgVars, auxVars, state, now, i, cycles, conn, locVars, cyc, outVars, fetched>>

\* INSERT INTO runs(ts_utc, signature, top5_json); conn.commit()
AppendRun ==
  /\ pc = "append_run"
  /\ runs' = Append(runs, [ts_utc |-> now, signature |-> curr_sig,
                           top5_json |-> json_dumps(curr_top5)])
  /\ pc' = "gate"
  /\ UNCHANGED <<cfgVars, auxVars, state, now, i, cycles, conn, locVars, cyc, outVars, fetched>>

\* mutant: an unchanged signature still refreshes the stored snapshot
GateRefreshSnapshot ==
  /\ pc = "gate"
  /\ IF Changed(prev_sig, curr_sig)
     THEN /\ last_sent' = state.last_sent_utc
          /\ can_send' = CanSend(state.last_sent_utc, now)
          /\ pc' = IF CanSend(state.last_sent_utc, now) THEN "send" ELSE "set_sig"
          /\ cyc' = IF CanSend(state.last_sent_utc, now)
                    THEN [cyc EXCEPT !.gate_now = now, !.decision = "notify"]
                    ELSE [cyc EXCEPT !.gate_now = now, !.decision = "cooldown",
                                     !.suppressed = @ + 1,
                                     !.held = Some(curr_sig)]
     ELSE /\ pc' = "set_json"
          /\ cyc' = [cyc EXCEPT !.gate_now = now, !.decision = "same",
                                !.held = IF @ = Some(curr_sig) THEN @ ELSE None]
          /\ UNCHANGED <<last_sent, can_send>>
  /\ UNCHANGED <<cfgVars, auxVars, dbVars, now, i, cycles, conn, jobs, curr_top5, curr_sig,
                 prev_sig, prev_top5, outVars, fetched>>

\* if prev_sig != curr_sig: the cooldown guard computes can_send
Gate ==
  /\ pc = "gate"
  /\ IF Changed(prev_sig, curr_sig)
     THEN /\ last_sent' = state.last_sent_utc
          /\ can_send' = CanSend(state.last_sent_utc, now)
          /\ pc' = IF CanSend(state.last_sent_utc, now) THEN "send" ELSE "set_sig"
          /\ cyc' = IF CanSend(state.last_sent_utc, now)
                    THEN [cyc EXCEPT !.gate_now = now, !.decision = "notify"]
                    ELSE [cyc EXCEPT !.gate_now = now, !.decision = "cooldown",
                                     !.suppressed = @ + 1,
                                     !.held = Some(curr_sig)]
     ELSE /\ pc' = "round"
          /\ cyc' = [cyc EXCEPT !.gate_now = now, !.decision = "same",
                                !.held = IF @ = Some(curr_sig) THEN @ ELSE None]
          /\ UNCHANGED <<last_sent, can_send>>
  /\ UNCHANGED <<cfgVars, auxVars, dbVars, now, i, cycles, conn, jobs, curr_top5, curr_sig,
                 prev_sig, prev_top5, outVars, fetched>>

\* mutant: an exception of send_email is swallowed and the cycle goes on to
\* line 345
SendEmailSwallow ==
  /\ pc = "send"
  /\ \E d \in 0..MaxSendDelay :
       /\ now' = now + d
       /\ \/ /\ sentAt' = Some(now + d)
             /\ mail' = Some(format_body(prev_top5, curr_top5))
             /\ cyc' = [cyc EXCEPT !.attempts = @ + 1, !.delivered = TRUE,
                                   !.suppressed = 0]
          \/ /\ cyc' = [cyc EXCEPT !.attempts = @ + 1]
             /\ UNCHANGED outVars
       /\ pc' = "set_last_sent"
  /\ UNCHANGED <<cfgVars, auxVars, dbVars, i, cycles, conn, locVars, fetched>>

\* body = format_body(prev_top5, curr_top5); send_email(subject, body)
SendEmail ==
  /\ pc = "send"
  /\ \E d \in 0..MaxSendDelay :
       /\ now' = now + d
       /\ \/ /\ sentAt' = Some(now + d)
             /\ mail' = Some(format_body(prev_top5, curr_top5))
             /\ cyc' = [cyc EXCEPT !.attempts = @ + 1, !.delivered = TRUE,
                                   !.suppressed = 0]
             /\ pc' = "set_last_sent"
          \/ /\ cyc' = [cyc EXCEPT !.attempts = @ + 1]   \* send_email raises
             /\ pc' = "except"
             /\ UNCHANGED outVars
  /\ UNCHANGED <<cfgVars, auxVars, dbVars, i, cycles, conn, locVars, fetched>>

\* mutant: the time of the e-mail is not stored
SetLastSentNoWrite ==
  /\ pc = "set_last_sent"
  /\ pc' = "set_sig"
  /\ UNCHANGED <<cfgVars, auxVars, dbVars, now, i, cycles, conn, locVars, cyc, outVars, fetched>>

\* state_set(conn, "last_sent_utc", now)
SetLastSent ==
  /\ pc = "set_last_sent"
  /\ state' = [state EXCEPT !.last_sent_utc = Some(now)]
  /\ pc' = "set_sig"
  /\ UNCHANGED <<cfgVars, auxVars, runs, now, i, cycles, conn, locVars, cyc, outVars, fetched>>

\* mutant: the baseline signature is written only when an e-mail was sent
SetSigOnlyIfSent ==
  /\ pc = "set_sig"
  /\ state' = IF cyc.decision = "notify"
              THEN [state EXCEPT !.top5_sig = Some(curr_sig)] ELSE state
  /\ pc' = "set_json"
  /\ UNCHANGED <<cfgVars, auxVars, runs, now, i, cycles, conn, locVars, cyc, outVars, fetched>>

\* state_set(conn, "top5_sig", curr_sig)
SetSig ==
  /\ pc = "set_sig"
  /\ state' = [state EXCEPT !.top5_sig = Some(curr_sig)]
  /\ pc' = "set_json"
  /\ UNCHANGED <<cfgVars, auxVars, runs, now, i, cycles, conn, locVars, cyc, outVars, fetched>>

\* state_set(conn, "top5_json", json.dumps(curr_top5))
SetJson ==
  /\ pc = "set_json"
  /\ state' = [state EXCEPT !.top5_json = Some(json_dumps(curr_top5))]
  /\ pc' = "round"
  /\ UNCHANGED <<cfgVars, auxVars, runs, now, i, cycles, conn, locVars, cyc, outVars, fetched>>

\* mutant: the exception is not caught and ends main()
ExceptEscapes ==
  /\ pc = "except"
  /\ cyc' = [cyc EXCEPT !.errored = TRUE]
  /\ pc' = "crashed"
  /\ UNCHANGED <<cfgVars, auxVars, dbVars, now, i, cycles, conn, locVars, outVars, fetched>>

\* except Exception as e: print(...)
Except ==
  /\ pc = "except"
  /\ cyc' = [cyc EXCEPT !.errored = TRUE]
  /\ pc' = "round"
  /\ UNCHANGED <<cfgVars, auxVars, dbVars, now, i, cycles, conn, locVars, outVars, fetched>>

\* i+=1; time.sleep(random.randint(POLL_MIN_SECONDS, POLL_MAX_SECONDS))
Round ==
  /\ pc = "round"
  /\ i' = i + 1
  /\ \E d \in POLL_MIN_SECONDS..POLL_MAX_SECONDS : now' = now + d
  /\ pc' = "loop"
  /\ jobs' = <<>> /\ curr_top5' = <<>> /\ curr_sig' = <<>>
  /\ prev_sig' = None /\ prev_top5' = None /\ last_sent' = None /\ can_send' = TRUE
  /\ UNCHANGED <<cfgVars, auxVars, dbVars, cycles, conn, cyc, outVars, fetched>>

\* the program is started again on the same database file
Relaunch ==
  /\ pc \in {"done", "config_error", "crashed", "killed"}
  /\ pc' = "main"
  /\ i' = 0
  /\ conn' = "closed"
  /\ cyc' = NewCycle(FALSE)
  /\ jobs' = <<>> /\ curr_top5' = <<>> /\ curr_sig' = <<>>
  /\ prev_sig' = None /\ prev_top5' = None /\ last_sent' = None /\ can_send' = TRUE
  /\ UNCHANGED <<cfgVars, auxVars, dbVars, now, cycles, outVars, fetched>>

Next ==
  \/ validate_config \/ db_conn \/ LoopTest \/ FetchJobs \/ Snapshot \/ ReadState
  \/ AppendRun \/ Gate \/ SendEmail \/ SetLastSent \/ SetSig \/ SetJson
  \/ Except \/ Round \/ Relaunch

Spec == Init /\ [][Next]_vars

SpecAnyConfig == InitAnyConfig /\ [][Next]_vars

SpecLocations == InitLocations /\ [][Next]_vars

\* ------------------------------------------------- persistence exceptions
\* A statement on the sqlite connection raises inside the try block: the
\* reads of lines 321-322 and 334, the insert of lines 326-330 and the
\* state_set calls of lines 345, 351 and 352.  The statement has no effect.
PersistenceError ==
  /\ \/ pc \in {"read_state", "append_run", "set_last_sent", "set_sig", "set_json"}
     \/ pc = "gate" /\ Changed(prev_sig, curr_sig)
  /\ pc' = "except"
  /\ UNCHANGED <<cfgVars, auxVars, dbVars, now, i, cycles, conn, locVars, cyc, outVars, fetched>>

\* db_conn() raises: it is called outside the try block, so main() ends
DbConnError ==
  /\ pc = "db_conn"
  /\ pc' = "crashed"
  /\ UNCHANGED <<cfgVars, auxVars, dbVars, now, i, cycles, conn, locVars, cyc, outVars, fetched>>

NextErr == Next \/ PersistenceError \/ DbConnError

SpecErr == Init /\ [][NextErr]_vars

\* ------------------------------------------------------------ one launch
\* One run of main() on a valid configuration, sqlite exceptions included.
\* Every call returns or raises (the page load, the SMTP session and
\* time.sleep are bounded by their timeouts), so the statement main() is at
\* is eventually executed.
OneLaunch ==
  \/ validate_config \/ db_conn \/ LoopTest \/ FetchJobs \/ Snapshot \/ ReadState
  \/ AppendRun \/ Gate \/ SendEmail \/ SetLastSent \/ SetSig \/ SetJson
  \/ Except \/ Round \/ PersistenceError

SpecOneLaunch == Init /\ [][OneLaunch]_vars /\ WF_vars(OneLaunch)

\* ------------------------------------------------------ process termination
InCycle ==
  {"fetch", "check_len", "read_state", "append_run", "gate", "send",
   "set_last_sent", "set_sig", "set_json", "except"}

\* The process is terminated from outside while a cycle is running; every
\* committed statement stays in the database file.
Kill ==
  /\ pc \in InCycle
  /\ pc' = "killed"
  /\ conn' = "closed"
  /\ UNCHANGED <<cfgVars, auxVars, dbVars, now, i, cycles, locVars, cyc, outVars, fetched>>

NextKill == NextErr \/ Kill

SpecKill == Init /\ [][NextKill]_vars

\* ------------------------------------------------ functions on their own
\* The state in which a function of the module is called on its own.
InitCalls ==
  /\ POLL_MIN_SECONDS = 1
  /\ POLL_MAX_SECONDS = 2
  /\ TOP_K = 1
  /\ site = JobPool
  /\ state = EmptyState
  /\ runs = <<>>
  /\ now = 0
  /\ pc = "call" /\ i = 0 /\ cycles = 0 /\ conn = "closed"
  /\ NoLocals
  /\ cyc = CycleRecord(EmptyState, <<>>, None, FALSE, 0)
  /\ sentAt = None /\ mail = None /\ fetched = FALSE
  /\ call = NoCall

\* signature(top5_snapshot(A)) and signature(top5_snapshot(B)) for two
\* listings of at least k entries, with TOP_K = k
CallSignature ==
  /\ pc = "call"
  /\ \E A, B \in CallListings, k \in 1..MaxCallLen :
       /\ Len(A) >= k /\ Len(B) >= k
       /\ call' = [f |-> "signature", a |-> A, b |-> B, k |-> k,
                   out |-> <<signature(top5_snapshot(A, k)),
                             signature(top5_snapshot(B, k))>>]
  /\ pc' = "returned"
  /\ UNCHANGED <<cfgVars, site, dbVars, now, i, cycles, conn, locVars, cyc,
                 outVars, fetched>>

\* diff(prev, curr), prev being None or a window
CallDiff ==
  /\ pc = "call"
  /\ \E p \in {None} \cup { Some(w) : w \in CallListings }, c \in CallListings :
       call' = [f |-> "diff", a |-> p, b |-> c, k |-> 0, out |-> diff_call(p, c)]
  /\ pc' = "returned"
  /\ UNCHANGED <<cfgVars, site, dbVars, now, i, cycles, conn, locVars, cyc,
                 outVars, fetched>>

\* format_body(prev, curr), prev being None or a window
CallFormatBody ==
  /\ pc = "call"
  /\ \E p \in {None} \cup { Some(w) : w \in CallListings }, c \in CallListings :
       call' = [f |-> "format_body", a |-> p, b |-> c, k |-> 0,
                out |-> format_body(p, c)]
  /\ pc' = "returned"
  /\ UNCHANGED <<cfgVars, site, dbVars, now, i, cycles, conn, locVars, cyc,
                 outVars, fetched>>

\* parse_dt on the number v and on the number 1000 * v
CallParseDt ==
  /\ pc = "call"
  /\ \E v \in EpochValues :
       call' = [f |-> "parse_dt", a |-> v, b |-> 1000 * v, k |-> 0,
                out |-> <<parse_dt(v), parse_dt(1000 * v)>>]
  /\ pc' = "returned"
  /\ UNCHANGED <<cfgVars, site, dbVars, now, i, cycles, conn, locVars, cyc,
                 outVars, fetched>>

NextCalls == CallSignature \/ CallDiff \/ CallFormatBody \/ CallParseDt

\* main() runs, or one of its functions is called on its own
SpecCalls == (Init \/ InitCalls) /\ [][Next \/ NextCalls]_vars

\* ------------------------------------------------------------- properties
\* The cycle has reached line 358 (the try statement is over) and its fetch
\* returned at least TOP_K entries.
CycleOverWithWindow == pc = "round" /\ Len(jobs) >= TOP_K

\* The window of the cycle differs from the baseline the cycle started from.
SignatureChanged ==
  cyc.pre.top5_sig = None \/ cyc.pre.top5_sig[1] # curr_sig

\* No e-mail time was stored when the cycle started, or at least the cooldown
\* had elapsed since when the gate read the clock.
CooldownElapsed ==
  \/ cyc.pre.last_sent_utc = None
  \/ cyc.gate_now - cyc.pre.last_sent_utc[1] >= COOLDOWN_SECONDS

BaselineIsCurrent ==
  /\ state.top5_sig = Some(curr_sig)
  /\ state.top5_json = Some(json_dumps(curr_top5))

\* C1 -- Gate decision.  In every cycle that produced a window, send_email is
\* called (once) exactly when the stored signature was absent or different
\* and no e-mail time was stored or at least COOLDOWN_SECONDS had elapsed;
\* when the send returned, last_sent_utc holds the time of the write; when
\* the change was suppressed by the cooldown, last_sent_utc is what it was.
\* An elapsed time equal to the cooldown notifies.
GateDecision ==
  CycleOverWithWindow =>
    /\ (cyc.attempts = 1) <=> (SignatureChanged /\ CooldownElapsed)
    /\ cyc.attempts \in {0, 1}
    /\ cyc.delivered => state.last_sent_utc = Some(now)
    /\ (SignatureChanged /\ ~CooldownElapsed) =>
         /\ ~cyc.delivered
         /\ state.last_sent_utc = cyc.pre.last_sent_utc

\* C1 witness: an e-mail was delivered in a cycle whose gate found the elapsed
\* time exactly equal to the cooldown.
GateAtExactCooldown ==
  /\ CycleOverWithWindow
  /\ cyc.delivered
  /\ cyc.pre.last_sent_utc # None
  /\ cyc.gate_now - cyc.pre.last_sent_utc[1] = COOLDOWN_SECONDS

\* C2 -- Cooldown property.  Once an e-mail was delivered at time T, no send
\* is started for a change detected before T + COOLDOWN_SECONDS, and every
\* change so suppressed still replaces the stored signature and snapshot.
CooldownProperty ==
  /\ (pc = "send" /\ sentAt # None) => now >= sentAt[1] + COOLDOWN_SECONDS
  /\ ( /\ CycleOverWithWindow
       /\ SignatureChanged
       /\ cyc.preSent # None
       /\ cyc.gate_now < cyc.preSent[1] + COOLDOWN_SECONDS )
     => (cyc.attempts = 0 /\ sentAt = cyc.preSent /\ BaselineIsCurrent)

\* C2 witness: the second change in a row suppressed after one delivery.
TwoChangesSuppressed ==
  /\ CycleOverWithWindow
  /\ SignatureChanged
  /\ cyc.preSent # None
  /\ cyc.gate_now < cyc.preSent[1] + COOLDOWN_SECONDS
  /\ cyc.suppressed = 2

\* C3 -- Persist-always, as claimed: at the end of every cycle that produced
\* a window the stored signature and snapshot are that cycle's, also when
\* the send failed.  The code does not do this: see PersistAlways's trace.
PersistAlways == CycleOverWithWindow => BaselineIsCurrent

\* C4 as claimed -- first-ever cycle: with nothing persisted, no notification
\* is sent and the window's signature becomes the baseline.
FirstCycleSilent ==
  cyc.pre = EmptyState =>
    /\ ~cyc.delivered
    /\ CycleOverWithWindow => state.top5_sig = Some(curr_sig)

\* C4 as amended -- first-ever cycle: with nothing persisted, a notification
\* is attempted; when the send returns, its body has no entered/left
\* section, and the time of the e-mail, the signature and the snapshot of the
\* window are persisted.
FirstCycleNotifies ==
  (CycleOverWithWindow /\ cyc.pre = EmptyState) =>
    /\ cyc.attempts = 1
    /\ cyc.delivered =>
         /\ mail = Some([entered |-> <<>>, left |-> <<>>, top |-> curr_top5])
         /\ state = [top5_sig |-> Some(curr_sig),
                     top5_json |-> Some(json_dumps(curr_top5)),
                     last_sent_utc |-> Some(now)]

\* C4 witness: the first cycle on an empty database delivered an e-mail.
FirstCycleDelivered ==
  CycleOverWithWindow /\ cyc.pre = EmptyState /\ cyc.preRuns = <<>> /\ cyc.delivered

\* C5 -- A cycle calls send_email at most once; a cycle whose send failed
\* leaves last_sent_utc as it found it; and last_sent_utc is only ever
\* written by line 345 of a cycle whose send returned.
SendOnceNoReset ==
  /\ [](cyc.attempts <= 1)
  /\ []((cyc.attempts = 1 /\ ~cyc.delivered) =>
          state.last_sent_utc = cyc.pre.last_sent_utc)
  /\ [][state'.last_sent_utc # state.last_sent_utc =>
          (cyc.delivered /\ cyc.attempts = 1 /\ pc = "set_last_sent")]_vars

\* C5 witness: a send failed in a cycle that started with an e-mail time
\* stored, and the cycle is over.
FailedSendAfterEarlierMail ==
  /\ pc = "round"
  /\ cyc.attempts = 1 /\ ~cyc.delivered
  /\ cyc.pre.last_sent_utc # None

\* C6 -- Skipped cycles.  When the fetch failed (jobs is empty) or returned
\* fewer than TOP_K entries, the cycle delivers nothing, appends nothing to
\* runs and leaves the three keys of state as they were.
SkippedCycleFrame ==
  (pc \in {"check_len", "except", "round"} /\ Len(jobs) < TOP_K) =>
    /\ state = cyc.pre
    /\ runs = cyc.preRuns
    /\ cyc.attempts = 0
    /\ sentAt = cyc.preSent

\* C6 witness: a cycle skipped for too few entries, with a baseline stored.
SkippedWithBaseline ==
  /\ pc = "round"
  /\ jobs # <<>> /\ Len(jobs) < TOP_K
  /\ state.top5_sig # None /\ state.last_sent_utc # None

InTry ==
  {"fetch", "check_len", "read_state", "append_run", "gate", "send",
   "set_last_sent", "set_sig", "set_json"}

\* C7 -- Failure isolation.  Whatever a step of the try block does, control
\* stays in the try block, enters the except clause or reaches line 358; the
\* except clause goes on to line 358; line 358 is followed by the increment
\* of i and the next loop test; and the loop is left only when i has reached
\* the run count.
FailureIsolation ==
  [][ /\ pc \in InTry => pc' \in InTry \cup {"except", "round"}
      /\ pc = "except" => (pc' = "round" /\ i' = i)
      /\ pc = "round" => (pc' = "loop" /\ i' = i + 1)
      /\ (pc = "loop" /\ pc' # "fetch") => (pc' = "done" /\ i = RunCount)
      /\ pc' \in {"done", "crashed"} => pc \in {"loop", "db_conn"}
    ]_vars

\* C7 witness: in the cycle after one that went through the except clause,
\* in the same launch, a change was detected and an e-mail delivered.
NotifiedAfterErroredCycle ==
  /\ pc = "round" /\ i = 1
  /\ cyc.after_error
  /\ cyc.delivered /\ BaselineIsCurrent

\* the stored signature is the signature of the stored snapshot
SignatureOfSnapshot ==
  \/ state.top5_sig = None /\ state.top5_json = None
  \/ /\ state.top5_sig # None /\ state.top5_json # None
     /\ state.top5_sig[1] =
          [n \in 1..Len(state.top5_json[1].json) |->
             <<state.top5_json[1].json[n].id, state.top5_json[1].json[n].title>>]

\* C8 -- Commit-or-nothing, as claimed: after the process is killed inside a
\* cycle, the stored signature is the signature of the stored snapshot and
\* the time of every delivered e-mail is stored.  The code commits each
\* statement by itself: see KilledStateWhole's trace.
KilledStateWhole ==
  pc = "killed" =>
    /\ SignatureOfSnapshot
    /\ cyc.delivered => state.last_sent_utc = sentAt

\* C9 -- Run history.  Every cycle that produced a window has appended
\* exactly one row to runs, holding its signature and its window, whatever
\* the gate did; and no step changes or removes a row.
RunHistoryAppendOnly ==
  /\ [](CycleOverWithWindow =>
          /\ Len(runs) = Len(cyc.preRuns) + 1
          /\ runs[Len(runs)].signature = curr_sig
          /\ runs[Len(runs)].top5_json = json_dumps(curr_top5)
          /\ runs[Len(runs)].ts_utc <= now)
  /\ [][Len(runs') >= Len(runs) /\ SubSeq(runs', 1, Len(runs)) = runs]_vars

\* C9 witness: a cycle whose window was unchanged has appended the second
\* row of the log.
UnchangedCycleLogged ==
  /\ CycleOverWithWindow
  /\ ~SignatureChanged
  /\ Len(runs) = 2 /\ Len(cyc.preRuns) = 1

\* C10 -- Configuration fail-fast.  With min > max, TOP_K < 1 or a poll bound
\* that is not positive, main() ends in validate_config: the database is
\* never opened, nothing is fetched, logged, stored or sent.
ConfigFailFast ==
  ( \/ POLL_MIN_SECONDS > POLL_MAX_SECONDS
    \/ TOP_K < 1
    \/ POLL_MIN_SECONDS <= 0
    \/ POLL_MAX_SECONDS <= 0 )
  => /\ pc \in {"main", "config_error"}
     /\ conn = "closed"
     /\ ~fetched
     /\ cycles = 0
     /\ runs = <<>>
     /\ state = EmptyState
     /\ sentAt = None /\ mail = None

\* C10 witness: startup failed for min > max alone.
ConfigRejectedForOrder ==
  /\ pc = "config_error"
  /\ POLL_MIN_SECONDS > POLL_MAX_SECONDS
  /\ POLL_MAX_SECONDS > 0
  /\ TOP_K >= 1

\* C11: for two listings of at least K entries, the signatures of their
\* windows are equal exactly when the first K entries carry the same (id,
\* title) pairs in the same order: entries beyond K and the location do not
\* count, and the same ids in another order give another signature.
WindowSignature ==
  pc = "returned" /\ call.f = "signature" =>
    ( call.out[1] = call.out[2]
      <=> \A n \in 1..call.k : /\ call.a[n].id = call.b[n].id
                               /\ call.a[n].title = call.b[n].title )

\* two listings that differ in a location and in length, with equal
\* signatures, and two windows of the same ids in another order
SameSignatureOtherFields ==
  /\ pc = "returned" /\ call.f = "signature"
  /\ call.out[1] = call.out[2]
  /\ Len(call.a) > call.k
  /\ Len(call.b) = call.k
  /\ call.a[1].location # call.b[1].location

ReorderedWindow ==
  /\ pc = "returned" /\ call.f = "signature" /\ call.k = 2
  /\ Ids(Take(call.a, 2)) = Ids(Take(call.b, 2))
  /\ call.a[1].id # call.b[1].id
  /\ call.out[1] # call.out[2]

\* C12: diff(None, current) returns two empty sequences and raises nothing.
DiffAbsentPrevious ==
  pc = "returned" /\ call.f = "diff" /\ call.a = None =>
    ~call.out.raised /\ call.out.value = <<<<>>, <<>>>>

\* e lists, in the order of w, the titles of the entries of w whose id is the
\* id of no entry of other
IsSelection(e, w, other) ==
  LET idx == { n \in 1..Len(w) : \A m \in 1..Len(other) : other[m].id # w[n].id }
  IN  /\ Len(e) = Cardinality(idx)
      /\ \A n \in idx : e[Cardinality({ m \in idx : m <= n })] = w[n].title

\* the example of the specification: [A,B,C,D,E] becomes [F,B,C,D,E]
DiffExample ==
  LET J(n, t) == [id |-> n, title |-> t, location |-> "x"]
      old == <<J(1, "A"), J(2, "B"), J(3, "C"), J(4, "D"), J(5, "E")>>
      new == <<J(6, "F"), J(2, "B"), J(3, "C"), J(4, "D"), J(5, "E")>>
  IN  diff(old, new) = << <<"F">>, <<"A">> >>

\* the e-mail of this cycle has been delivered and its inputs are still held
MailBuilt == cyc.delivered /\ pc \in {"set_last_sent", "set_sig", "set_json", "round"}

\* C13: entered lists the titles of the current entries whose id is not in
\* the previous window, in the current order; left lists the titles of the
\* previous entries whose id is not in the current window, in the previous
\* order; diff(prev, prev) is empty; and a delivered e-mail reports both
\* relative to the baseline that was persisted when its cycle began.
DiffByIdMembership ==
  /\ pc = "returned" /\ call.f = "diff" /\ call.a # None =>
       /\ ~call.out.raised
       /\ IsSelection(call.out.value[1], call.b, call.a[1])
       /\ IsSelection(call.out.value[2], call.a[1], call.b)
       /\ (call.a[1] = call.b => call.out.value = <<<<>>, <<>>>>)
  /\ MailBuilt /\ cyc.pre.top5_json # None =>
       /\ IsSelection(mail[1].entered, curr_top5, cyc.pre.top5_json[1].json)
       /\ IsSelection(mail[1].left, cyc.pre.top5_json[1].json, curr_top5)
  /\ DiffExample

\* an e-mail that names an entered and a left title although the window it
\* reports is the window of the e-mail before it: the baseline is the
\* suppressed window in between
ReportedAgainstBaseline ==
  /\ MailBuilt /\ cyc.pre.top5_json # None
  /\ mail[1].entered # <<>> /\ mail[1].left # <<>>
  /\ cyc.pre.last_sent_utc # None
  /\ \E n \in 1..Len(runs) - 2 :
       /\ runs[n].signature = curr_sig
       /\ runs[n + 1].signature # curr_sig

\* C14: once a change to a window was suppressed by the cooldown, no cycle
\* whose window still has that signature sends an e-mail, whether or not the
\* cooldown has expired meanwhile.
NoLateRenotification ==
  pc \in InCycle \cup {"round"} /\ cyc.held = Some(curr_sig) =>
    pc # "send" /\ cyc.attempts = 0

\* a later cycle shows the suppressed window after the cooldown has expired
\* and sends nothing
SuppressedWindowAfterCooldown ==
  /\ pc = "round" /\ cyc.decision = "same"
  /\ cyc.held = Some(curr_sig)
  /\ cyc.pre.last_sent_utc # None
  /\ cyc.gate_now - cyc.pre.last_sent_utc[1] >= COOLDOWN_SECONDS
  /\ cyc.attempts = 0

BoundedPollingLoop ==
  /\ <>(pc = "done")
  /\ [](cycles <= RunCount /\ i <= RunCount)
  /\ [](pc = "done" => i = RunCount /\ cycles = RunCount)

\* the loop has ended after two cycles that both raised
DoneAfterTwoErrors ==
  /\ pc = "done" /\ i = RunCount /\ cycles = RunCount
  /\ cyc.errored /\ cyc.after_error

\* C17: a date number v is read as milliseconds exactly when it is above
\* 10,000,000,000 and as seconds otherwise (the threshold itself is seconds),
\* so every s with 10,000,000 < s <= 10,000,000,000 and the number 1000 * s
\* resolve to the same instant.  (Numbers in millions, instants in ms.)
EpochDisambiguation ==
  pc = "returned" /\ call.f = "parse_dt" /\ call.a # 0 =>
    /\ call.a > 10000 => call.out[1] = Some(call.a)
    /\ call.a <= 10000 => call.out[1] = Some(1000 * call.a)
    /\ 10 < call.a /\ call.a <= 10000 => call.out[1] = call.out[2]

\* the threshold value itself: read as seconds, and equal to the instant of
\* a thousand times the value, which is read as milliseconds
ThresholdReadAsSeconds ==
  /\ pc = "returned" /\ call.f = "parse_dt"
  /\ call.a = MS_THRESHOLD
  /\ call.out[1] = Some(1000 * MS_THRESHOLD)
  /\ call.out[2] = call.out[1]

\* the body b was built from windows prev and curr of the same length: its
\* entered and left lists are equally long, and both are empty exactly when
\* the two windows hold the same ids
BalancedBody(b, prev, curr) ==
  /\ Len(b.entered) = Len(b.left)
  /\ (b.entered = <<>> /\ b.left = <<>>)
       <=> { prev[n].id : n \in 1..Len(prev) } = { curr[n].id : n \in 1..Len(curr) }

\* C18: a notification built against a present previous window of the same
\* K entries lists as many entered as left titles, and none of either
\* exactly when both windows hold the same ids (a reorder or a change of
\* title only), both for format_body on its own and for every e-mail that
\* main() delivers.
EnteredLeftBalance ==
  /\ pc = "returned" /\ call.f = "format_body" /\ call.a # None
       /\ call.b # <<>> /\ Len(call.a[1]) = Len(call.b) =>
       BalancedBody(call.out, call.a[1], call.b)
  /\ MailBuilt /\ cyc.pre.top5_json # None =>
       /\ Len(cyc.pre.top5_json[1].json) = Len(curr_top5)
       /\ BalancedBody(mail[1], cyc.pre.top5_json[1].json, curr_top5)

\* an e-mail of main() for a window of the same two ids in another order:
\* the signature changed and nothing is listed as entered or left
ReorderOnlyMail ==
  /\ MailBuilt /\ cyc.pre.top5_json # None
  /\ TOP_K = 2
  /\ cyc.pre.top5_sig # Some(curr_sig)
  /\ curr_top5[1].id = cyc.pre.top5_json[1].json[2].id
  /\ curr_top5[2].id = cyc.pre.top5_json[1].json[1].id
  /\ mail[1].entered = <<>> /\ mail[1].left = <<>>
====
